---- MODULE Spec2Model ----
(***************************************************************************)
(* TOuNN: the optimization driver TopologyOptimizer.optimizeDesign and the *)
(* coordinate transform TopologyOptimizer.applySymmetry of                 *)
(* src/tounn/TOuNNOptimizer.py.                                            *)
(*                                                                         *)
(* Units.  Real numbers of the program are kept exact as scaled integers   *)
(* or as reduced fractions <<numerator, denominator>>:                     *)
(*   desiredVolumeFraction  in 1/10000   (4000 is 0.4)                     *)
(*   alpha, alphaMax        in 1/100     (5 is 0.05)                       *)
(*   penal                  in 1/100     (800 is 8.0, 2 is 0.02)           *)
(*   a density              in 1/10      (2 is 0.2, 8 is 0.8)              *)
(*   objective, vol, grey   as fractions                                   *)
(* The FE solver, the network with its optimizer and the plotter are       *)
(* collaborators outside the file: what they hand back is chosen           *)
(* nondeterministically in each iteration.                                 *)
(***************************************************************************)
EXTENDS Integers, Sequences, FiniteSets

VARIABLES
    desiredVolumeFraction, \* self.desiredVolumeFraction (1/10000)
    penalInit,             \* penal of the FE solver as constructed (1/100)
    penal,                 \* topOpt.FE.penal (1/100)
    pc,                    \* where the driver is
    runs,                  \* calls of optimizeDesign made on the object
    maxEpochs, minEpochs,  \* arguments of the current call
    epoch,                 \* loop variable; -1 while it is unbound
    alpha,                 \* local alpha (1/100)
    rho_np,                \* local rho_np; <<>> while it is unbound
    compliance,            \* (Emax * rho_np^penal * Jelem).sum() of the iteration;
                           \* 0 while no iteration of the call has run
    obj0,                  \* topOpt.obj0 <<value, penal it was computed with>>;
                           \* <<>> while the attribute is not set
    objective,             \* topOpt.objective, a fraction
    loss,                  \* local loss <<objective, alpha, volConstraint>>
    titleStr,              \* local titleStr <<Iter, Obj, vol>>; <<>> unbound
    convergenceHistory,    \* topOpt.convergenceHistory
    plots,                 \* calls made on the plotter in the current call
    symXAxis, symYAxis,    \* self.symXAxis, self.symYAxis: [isOn, midPt]
    symIn, symOut          \* argument and result of applySymmetry

vars == <<desiredVolumeFraction, penalInit, penal, pc, runs, maxEpochs,
          minEpochs, epoch, alpha, rho_np, compliance, obj0, objective, loss,
          titleStr, convergenceHistory, plots, symXAxis, symYAxis, symIn, symOut>>

driverVars == <<desiredVolumeFraction, penalInit, penal, pc, runs, maxEpochs,
                minEpochs, epoch, alpha, rho_np, compliance, obj0, objective,
                loss, titleStr, convergenceHistory, plots>>

symVars == <<symXAxis, symYAxis, symIn, symOut>>

(***************************************************************************)
(* Bounds of the model.                                                    *)
(***************************************************************************)
MaxEpochsArg == 3
MaxRuns == 2
NumElems == 1
MaxCoord == 3
BatchLen == 1

(***************************************************************************)
(* Inputs.                                                                 *)
(***************************************************************************)
\* desired volume fractions: 0.0004, 0.0012, 0.024, 0.4
VolumeFractions == {4, 12, 240, 4000}
\* penal of the FE solver at construction: 2.0, 7.97 and 8.3
PenalInits == {200, 797, 830}
\* densities the network hands back: 0.2, 0.5, 0.8
Levels == {2, 5, 8}
\* unnormalized compliances sum(Emax * rho^penal * Jelem) the FE solve yields
CompVals == {1, 2}
MinEpochsArgs == {0, 1}

(***************************************************************************)
(* Program constants.                                                      *)
(***************************************************************************)
AlphaIncrement == 5
PenalIncrement == 2
PenalCap == 800
LowDensity == 2
HighDensity == 8
StatusPeriod == 20
GreyThreshold == <<25, 1000>>

(***************************************************************************)
(* Exact arithmetic.                                                       *)
(***************************************************************************)
Abs(v) == IF v < 0 THEN -v ELSE v

Min(a, b) == IF a <= b THEN a ELSE b

RECURSIVE GCD(_, _)
GCD(a, b) == IF b = 0 THEN a ELSE GCD(b, a % b)

\* the fraction n/d (d > 0) in lowest terms
Rat(n, d) ==
    LET g == GCD(Abs(n), d)
    IN  <<n \div g, d \div g>>

RatLt(a, b) == a[1] * b[2] < b[1] * a[2]

RatLe(a, b) == a[1] * b[2] <= b[1] * a[2]

RatMul(a, b) == Rat(a[1] * b[1], a[2] * b[2])

RECURSIVE SeqSum(_)
SeqSum(s) == IF s = <<>> THEN 0 ELSE Head(s) + SeqSum(Tail(s))

(***************************************************************************)
(* applySymmetry (lines 84-94).  x is a batch of points <<x, y>>.  Column  *)
(* 0 is reflected about symYAxis.midPt when symYAxis is on, column 1 about *)
(* symXAxis.midPt when symXAxis is on.                                     *)
(***************************************************************************)
\* the two axis settings taken for each other
applySymmetrySwapped(x) ==
    [i \in 1..Len(x) |->
        LET xv == IF symXAxis.isOn
                  THEN symXAxis.midPt + Abs(x[i][1] - symXAxis.midPt)
                  ELSE x[i][1]
            yv == IF symYAxis.isOn
                  THEN symYAxis.midPt + Abs(x[i][2] - symYAxis.midPt)
                  ELSE x[i][2]
        IN  <<xv, yv>>]

applySymmetry(x) ==
    [i \in 1..Len(x) |->
        LET xv == IF symYAxis.isOn
                  THEN symYAxis.midPt + Abs(x[i][1] - symYAxis.midPt)
                  ELSE x[i][1]
            yv == IF symXAxis.isOn
                  THEN symXAxis.midPt + Abs(x[i][2] - symXAxis.midPt)
                  ELSE x[i][2]
        IN  <<xv, yv>>]

(***************************************************************************)
(* Pieces of optimizeDesign (lines 105-210).                               *)
(***************************************************************************)
\* line 106
EmptyHistory == [compliance |-> <<>>, vol |-> <<>>, grayElems |-> <<>>]

\* line 108: alphaMax = 100 * desiredVolumeFraction, in 1/100
AlphaMax(dvf) == (100 * dvf * 100) \div 10000

\* line 150
NextAlpha(a, dvf) == Min(AlphaMax(dvf), a + AlphaIncrement)

\* the increment without the cap
NextPenalUncapped(p) == p + PenalIncrement

\* line 160
NextPenal(p) == Min(PenalCap, p + PenalIncrement)

\* obj0 assigned in every iteration
Obj0AfterEveryIteration(e, old, c, p) == <<c, p>>

\* lines 129-132: obj0 is assigned in iteration 0 only, from the
\* compliance c computed with the penal p of that moment
Obj0After(e, old, c, p) == IF e = 0 THEN <<c, p>> ELSE old

\* lines 135-141: sum(Emax * rho^(2 penal) * Jelem / rho^penal) / obj0
Objective(c, o0) == Rat(c, o0[1])

\* line 146: np.average(rho_np)
VolumeFraction(rho) == Rat(SeqSum(rho), 10 * Len(rho))

\* line 144: mean(nn_rho) / desiredVolumeFraction - 1
VolConstraint(rho, dvf) ==
    Rat(1000 * SeqSum(rho) - Len(rho) * dvf, Len(rho) * dvf)

\* line 155
GreyElements(rho) ==
    Cardinality({i \in 1..Len(rho) : rho[i] > LowDensity /\ rho[i] < HighDensity})

\* the grey share without the factor desiredVolumeFraction
RelGreyElementsUnscaled(rho, dvf) == Rat(GreyElements(rho), Len(rho))

\* line 156
RelGreyElements(rho, dvf) == Rat(dvf * GreyElements(rho), 10000 * Len(rho))

\* the append to grayElems left out
AppendHistoryDropsGrey(h, obj, vol, grey) ==
    [compliance |-> Append(h.compliance, obj),
     vol        |-> Append(h.vol, vol),
     grayElems  |-> h.grayElems]

\* lines 157-159
AppendHistory(h, obj, vol, grey) ==
    [compliance |-> Append(h.compliance, obj),
     vol        |-> Append(h.vol, vol),
     grayElems  |-> Append(h.grayElems, grey)]

\* lines 164-166 and 197-199: Iter, Obj = objective * obj0, vol
TitleStr(e, obj, o0, vol) == <<e, RatMul(obj, <<o0[1], 1>>), vol>>

\* the break test with >= for >
ConvergedAtFloor(e, minE, grey) == e >= minE /\ RatLt(grey, GreyThreshold)

\* line 173: the break test
Converged(e, minE, grey) == e > minE /\ RatLt(grey, GreyThreshold)

\* line 118: range(maxEpochs) has no further value after e
Exhausted(e, maxE) == e + 1 >= maxE

(***************************************************************************)
(* The object as __init__ leaves it (lines 29-71).                         *)
(***************************************************************************)
Constructed ==
    /\ penal = penalInit
    /\ pc = "idle"
    /\ runs = 0
    /\ maxEpochs = 0
    /\ minEpochs = 0
    /\ epoch = -1
    /\ alpha = 0
    /\ rho_np = <<>>
    /\ compliance = 0
    /\ obj0 = <<>>
    /\ objective = <<0, 1>>
    /\ loss = <<>>
    /\ titleStr = <<>>
    /\ convergenceHistory = EmptyHistory
    /\ plots = <<>>

SymSettings == [isOn : BOOLEAN, midPt : 0..MaxCoord]

SymOff == [isOn |-> FALSE, midPt |-> 0]

Points == (0..MaxCoord) \X (0..MaxCoord)

Init ==
    /\ desiredVolumeFraction \in VolumeFractions
    /\ penalInit \in PenalInits
    /\ Constructed
    /\ symXAxis = SymOff
    /\ symYAxis = SymOff
    /\ symIn = <<>>
    /\ symOut = <<>>

(***************************************************************************)
(* optimizeDesign, lines 105-116: the call and its initialisation.  With   *)
(* maxEpochs = 0 the loop body never runs and control is at line 175.      *)
(***************************************************************************)
Call ==
    /\ pc \in {"idle", "returned", "failed"}
    /\ runs < MaxRuns
    /\ \E maxE \in 0..MaxEpochsArg, minE \in MinEpochsArgs :
          /\ maxEpochs' = maxE
          /\ minEpochs' = minE
          /\ pc' = IF maxE = 0 THEN "maxEpochsReached" ELSE "iterating"
    /\ runs' = runs + 1
    /\ convergenceHistory' = EmptyHistory
    /\ alpha' = AlphaIncrement
    /\ epoch' = -1
    /\ rho_np' = <<>>
    /\ compliance' = 0
    /\ loss' = <<>>
    /\ titleStr' = <<>>
    /\ plots' = <<>>
    /\ UNCHANGED <<desiredVolumeFraction, penalInit, penal, obj0, objective>>
    /\ UNCHANGED symVars

(***************************************************************************)
(* One pass of the loop body, lines 118-174.                               *)
(***************************************************************************)
Iterate ==
    /\ pc = "iterating"
    /\ \E rho \in [1..NumElems -> Levels], c \in CompVals :
          LET e    == epoch + 1
              o0   == Obj0After(e, obj0, c, penal)
              obj  == Objective(c, o0)
              vol  == VolumeFraction(rho)
              grey == RelGreyElements(rho, desiredVolumeFraction)
          IN  /\ epoch' = e
              /\ rho_np' = rho
              /\ compliance' = c
              /\ obj0' = o0
              /\ objective' = obj
              /\ loss' = <<obj, alpha, VolConstraint(rho, desiredVolumeFraction)>>
              /\ alpha' = NextAlpha(alpha, desiredVolumeFraction)
              /\ convergenceHistory' = AppendHistory(convergenceHistory, obj, vol, grey)
              /\ penal' = NextPenal(penal)
              /\ IF e % StatusPeriod = 0
                 THEN /\ titleStr' = TitleStr(e, obj, o0, vol)
                      /\ plots' = Append(plots, "plotDensity")
                 ELSE UNCHANGED <<titleStr, plots>>
              /\ pc' = IF Converged(e, minEpochs, grey) THEN "converged"
                       ELSE IF Exhausted(e, maxEpochs) THEN "maxEpochsReached"
                       ELSE "iterating"
    /\ UNCHANGED <<desiredVolumeFraction, penalInit, runs, maxEpochs, minEpochs>>
    /\ UNCHANGED symVars

(***************************************************************************)
(* After the loop, lines 175-210.  Line 175 reads the locals rho_np and    *)
(* titleStr, which are unbound when the loop body never ran: the call      *)
(* ends with an UnboundLocalError before anything is plotted or returned.  *)
(***************************************************************************)
Finish ==
    /\ pc \in {"converged", "maxEpochsReached"}
    /\ IF rho_np = <<>> \/ titleStr = <<>>
       THEN /\ pc' = "failed"
            /\ UNCHANGED <<titleStr, plots>>
       ELSE /\ pc' = "returned"
            /\ titleStr' = TitleStr(epoch, objective, obj0, VolumeFraction(rho_np))
            /\ plots' = plots \o <<"plotDensity", "plotConvergence", "plotDensityHiRes">>
    /\ UNCHANGED <<desiredVolumeFraction, penalInit, penal, runs, maxEpochs,
                   minEpochs, epoch, alpha, rho_np, compliance, obj0, objective,
                   loss, convergenceHistory>>
    /\ UNCHANGED symVars

Next == Call \/ Iterate \/ Finish

Spec == Init /\ [][Next]_vars

(***************************************************************************)
(* applySymmetry as a function of its own: the settings and the batch are  *)
(* drawn at the start, the call stores its result.                         *)
(***************************************************************************)
SymInit ==
    /\ desiredVolumeFraction = 4000
    /\ penalInit = 797
    /\ Constructed
    /\ symXAxis \in SymSettings
    /\ symYAxis \in SymSettings
    /\ symIn \in [1..BatchLen -> Points]
    /\ symOut = <<>>

ApplySymmetry ==
    /\ symOut = <<>>
    /\ symOut' = applySymmetry(symIn)
    /\ UNCHANGED <<symXAxis, symYAxis, symIn>>
    /\ UNCHANGED driverVars

SymNext == ApplySymmetry

SymSpec == SymInit /\ [][SymNext]_vars

(***************************************************************************)
(* Properties.                                                             *)
(***************************************************************************)
\* a step that runs the loop body once
IterateStep == pc = "iterating" /\ epoch' = epoch + 1

\* t is s with one element added at the end
ExtendsByOne(s, t) == Len(t) = Len(s) + 1 /\ SubSeq(t, 1, Len(s)) = s

HistoryLengths ==
    /\ Len(convergenceHistory.compliance) = epoch + 1
    /\ Len(convergenceHistory.vol) = epoch + 1
    /\ Len(convergenceHistory.grayElems) = epoch + 1

HistoryAppendOnly ==
    runs' = runs =>
        IF IterateStep
        THEN /\ ExtendsByOne(convergenceHistory.compliance, convergenceHistory'.compliance)
             /\ ExtendsByOne(convergenceHistory.vol, convergenceHistory'.vol)
             /\ ExtendsByOne(convergenceHistory.grayElems, convergenceHistory'.grayElems)
        ELSE convergenceHistory' = convergenceHistory

\* C1: in every state of a call, and in the history it returns, compliance,
\* vol and grayElems have the same length, the number of iterations executed
\* so far in the call (epoch + 1); within a call each iteration adds exactly
\* one record at the end of each and no other step changes the history.
C1_HistoryLength == []HistoryLengths /\ [][HistoryAppendOnly]_vars

C1_Witness ==
    /\ pc = "returned"
    /\ epoch + 1 = MaxEpochsArg
    /\ Len(convergenceHistory.grayElems) = MaxEpochsArg

\* C2 as stated: whatever penal the FE solver starts with, penal never
\* exceeds 8.0 and never decreases.
C2_Original ==
    [][penal <= PenalCap /\ penal' <= PenalCap /\ penal' >= penal]_vars

\* C2 amended: when the FE solver starts with penal <= 8.0, penal never
\* exceeds 8.0 and never decreases, over all iterations and calls.
C2_PenalMonotoneCapped ==
    [][penalInit <= PenalCap =>
          penal <= PenalCap /\ penal' <= PenalCap /\ penal' >= penal]_vars

C2_Witness ==
    /\ penalInit < PenalCap
    /\ penal = PenalCap
    /\ epoch >= 2

\* C3: for every desiredVolumeFraction in (0,1), the alpha an iteration uses
\* in its loss is at most 100 * desiredVolumeFraction, and the alpha it leaves
\* for the next iteration is no smaller and still at most that cap.
C3_AlphaMonotoneCapped ==
    [][IterateStep =>
          /\ alpha <= AlphaMax(desiredVolumeFraction)
          /\ loss'[2] <= AlphaMax(desiredVolumeFraction)
          /\ alpha' >= alpha
          /\ alpha' <= AlphaMax(desiredVolumeFraction)]_vars

\* C4 as stated: an iteration ends the loop by the break exactly when the
\* number of iterations executed, the current one included (epoch + 1),
\* exceeds minEpochs and its grey fraction is below 0.025.
C4_Original ==
    [][IterateStep =>
          ((pc' = "converged") <=>
              (epoch' + 1 > minEpochs
               /\ RatLt(convergenceHistory'.grayElems[epoch' + 1], GreyThreshold)))]_vars

\* C4 amended: an iteration ends the loop by the break exactly when its
\* zero-based index (epoch) exceeds minEpochs, that is when more than
\* minEpochs + 1 iterations have been executed, and its grey fraction is
\* below 0.025; otherwise the next iteration runs, unless maxEpochs
\* iterations have been executed, which ends the loop as well.
C4_StopsOnIndex ==
    [][IterateStep =>
          LET stop == epoch' > minEpochs
                      /\ RatLt(convergenceHistory'.grayElems[epoch' + 1], GreyThreshold)
          IN  /\ (pc' = "converged") <=> stop
              /\ (pc' = "iterating") <=> (~stop /\ epoch' + 1 < maxEpochs)
              /\ (pc' = "maxEpochsReached") <=> (~stop /\ epoch' + 1 = maxEpochs)]_vars

C4_Witness ==
    /\ pc = "converged"
    /\ epoch = minEpochs + 1
    /\ epoch + 1 < maxEpochs
    /\ RatLt(convergenceHistory.grayElems[epoch], GreyThreshold)

\* C5: for every minEpochs >= 0 and maxEpochs >= 0 a call leaves the loop
\* after at most maxEpochs iterations and then ends by returning the history,
\* the final snapshots and the convergence plot emitted; it never ends in a
\* failure; and a call that met a grey fraction below 0.025 at an index above
\* minEpochs and below maxEpochs - 1 ran fewer than maxEpochs iterations.
C5_TerminatesAndReturns ==
    /\ epoch + 1 <= maxEpochs
    /\ pc # "failed"
    /\ pc = "returned" =>
          /\ Len(plots) >= 3
          /\ SubSeq(plots, Len(plots) - 2, Len(plots)) =
                <<"plotDensity", "plotConvergence", "plotDensityHiRes">>
    /\ \A k \in 1..Len(convergenceHistory.grayElems) :
          (k - 1 > minEpochs /\ k - 1 < maxEpochs - 1
           /\ RatLt(convergenceHistory.grayElems[k], GreyThreshold))
              => epoch + 1 < maxEpochs

\* C6: obj0 changes only in iteration 0 of a call, where it becomes the
\* unnormalized compliance of that iteration, computed with the penal the
\* iteration started with; every later iteration leaves it as it is, while
\* penal moves on.
C6_Obj0Frozen ==
    [][/\ obj0' # obj0 => (IterateStep /\ epoch' = 0)
       /\ (IterateStep /\ epoch' = 0) => obj0' = <<compliance', penal>>
       /\ (IterateStep /\ epoch' > 0) => obj0' = obj0]_vars

C6_Witness ==
    /\ epoch >= 2
    /\ obj0 # <<>>
    /\ obj0[2] # penal
    /\ obj0[1] # compliance

\* the reflection of v about m
Reflect(v, m) == m + Abs(v - m)

\* C7 as stated: with symXAxis on with midpoint m the first coordinate of the
\* output is m + |x - m| and the mirrored input (2m - x, y) maps to the same
\* output; a coordinate whose axis setting is off passes unchanged.
C7_Original ==
    symOut # <<>> =>
        \A i \in 1..Len(symIn) :
            LET x == symIn[i][1]
                y == symIn[i][2]
                m == symXAxis.midPt
            IN  symXAxis.isOn =>
                    /\ symOut[i][1] = Reflect(x, m)
                    /\ applySymmetry(<<<<2 * m - x, y>>>>)[1] = symOut[i]

\* C7 amended: with symXAxis on with midpoint m the second coordinate of the
\* output is m + |y - m| and the mirrored input (x, 2m - y) maps to the same
\* output; with symYAxis on with midpoint m the first coordinate is
\* m + |x - m| and (2m - x, y) maps to the same output; a coordinate whose
\* setting is off passes unchanged, each setting acting on its own.
C7_SymmetryPerAxis ==
    symOut # <<>> =>
        /\ Len(symOut) = Len(symIn)
        /\ \A i \in 1..Len(symIn) :
              LET x  == symIn[i][1]
                  y  == symIn[i][2]
                  mx == symXAxis.midPt
                  my == symYAxis.midPt
              IN  /\ symOut[i][2] = IF symXAxis.isOn THEN Reflect(y, mx) ELSE y
                  /\ symOut[i][1] = IF symYAxis.isOn THEN Reflect(x, my) ELSE x
                  /\ symXAxis.isOn =>
                        applySymmetry(<<<<x, 2 * mx - y>>>>)[1] = symOut[i]
                  /\ symYAxis.isOn =>
                        applySymmetry(<<<<2 * my - x, y>>>>)[1] = symOut[i]

C7_Witness ==
    /\ symOut # <<>>
    /\ symXAxis.isOn
    /\ ~symYAxis.isOn
    /\ symIn[1][2] < symXAxis.midPt
    /\ symIn[1][1] < symXAxis.midPt
    /\ symOut[1] = <<symIn[1][1], 2 * symXAxis.midPt - symIn[1][2]>>

\* C8: every call, a second call on the same object included, starts its
\* first iteration with an empty history, alpha at 0.05 and penal at the
\* value the FE solver was constructed with.
C8_CallStartsFresh ==
    (pc = "iterating" /\ epoch = -1) =>
        /\ convergenceHistory = EmptyHistory
        /\ alpha = AlphaIncrement
        /\ penal = penalInit

\* C9: the record an iteration appends holds the compliance in physical
\* units, objective * obj0 (the Obj of the status line), with the iteration's
\* volume fraction and grey fraction.
C9_HistoryPhysicalCompliance ==
    epoch >= 0 =>
        /\ convergenceHistory.compliance[epoch + 1] = RatMul(objective, <<obj0[1], 1>>)
        /\ convergenceHistory.compliance[epoch + 1] = <<compliance, 1>>
        /\ convergenceHistory.vol[epoch + 1] = Rat(SeqSum(rho_np), 10 * Len(rho_np))
        /\ convergenceHistory.grayElems[epoch + 1] =
              Rat(desiredVolumeFraction
                    * Cardinality({i \in 1..Len(rho_np) : rho_np[i] > 2 /\ rho_np[i] < 8}),
                  10000 * Len(rho_np))

\* C10: the grey fraction an iteration records is desiredVolumeFraction times
\* the number of elements with density strictly between 0.2 and 0.8 over the
\* element count; every recorded grey fraction lies in
\* [0, desiredVolumeFraction]; and with desiredVolumeFraction below 0.025 the
\* loop never goes on past index minEpochs + 1 and a break happens at exactly
\* that index.
C10_GreyBoundedByVolumeFraction ==
    /\ epoch >= 0 =>
          convergenceHistory.grayElems[epoch + 1] =
              Rat(desiredVolumeFraction
                    * Cardinality({i \in 1..Len(rho_np) : rho_np[i] > 2 /\ rho_np[i] < 8}),
                  10000 * Len(rho_np))
    /\ \A k \in 1..Len(convergenceHistory.grayElems) :
          /\ RatLe(<<0, 1>>, convergenceHistory.grayElems[k])
          /\ RatLe(convergenceHistory.grayElems[k], <<desiredVolumeFraction, 10000>>)
    /\ RatLt(<<desiredVolumeFraction, 10000>>, GreyThreshold) =>
          /\ \A k \in 1..Len(convergenceHistory.grayElems) :
                RatLt(convergenceHistory.grayElems[k], GreyThreshold)
          /\ pc = "iterating" => epoch <= minEpochs
          /\ pc = "converged" => epoch = minEpochs + 1
          /\ pc = "maxEpochsReached" => epoch <= minEpochs

C10_Witness ==
    /\ RatLt(<<desiredVolumeFraction, 10000>>, GreyThreshold)
    /\ pc = "converged"
    /\ epoch = minEpochs + 1
    /\ epoch + 1 < maxEpochs
    /\ \A i \in 1..Len(rho_np) : rho_np[i] = 5
    /\ convergenceHistory.grayElems[epoch + 1] = Rat(desiredVolumeFraction, 10000)

====
